---- MODULE Spec2Model ----
(***************************************************************************)
(* A model of go-sumtype's analyzer (pkg/sumtype): the scan for            *)
(* //go-sumtype:decl lines, the resolution of the declarations, and the    *)
(* exhaustiveness check of type switches.                                  *)
(*                                                                         *)
(* analyzer.go holds two definitions of run and of findSumTypeDecls (lines *)
(* 43-111 and lines 205-279).  Both are modelled: the first under its own  *)
(* name, the second with the suffix 2.                                     *)
(***************************************************************************)
EXTENDS Integers, Sequences, FiniteSets, TLC

VARIABLES
    line,       \* SpecDecl: the physical line handed to the scanner's loop body
    declName,   \* SpecDecl: the type name the loop body recorded for it ("" if none)
    swtch,      \* SpecCheck: the *ast.TypeSwitchStmt given to checkSwitch
    cdefs,      \* SpecCheck: the []sumTypeDef given to checkSwitch
    outcome,    \* SpecCheck: what checkSwitch did
    version,    \* Spec: which definition of run is executing (1 or 2)
    files,      \* Spec: the package's files (fileToPkg's keys)
    switches,   \* Spec: the package's type switches, in Preorder
    pc,         \* Spec: position inside run
    filesLeft,  \* Spec: files the range over the map has not yet visited
    decls,      \* Spec: findSumTypeDecls's accumulator
    defs,       \* Spec: findSumTypeDefs's defs
    errs,       \* Spec: findSumTypeDefs's errs
    swLeft,     \* Spec: switches the loop has not yet visited
    checked,    \* Spec: switches on which checkSwitch returned normally
    reports,    \* Spec: what reached the user: pass.Reportf calls and run's error
    panicked    \* Spec: whether run was unwound by a panic

vars == <<line, declName, swtch, cdefs, outcome, version, files, switches, pc,
          filesLeft, decls, defs, errs, swLeft, checked, reports, panicked>>

declVars  == <<line, declName>>
checkVars == <<swtch, cdefs, outcome>>
runVars   == <<version, files, switches, pc, filesLeft, decls, defs, errs,
               swLeft, checked, reports, panicked>>

NIL == "<nil>"

(***************************************************************************)
(* Bounds of the model.                                                    *)
(***************************************************************************)
MaxLineLen  == 5   \* symbols of a line handed to the scanner
MaxCases    == 3   \* case expressions of a switch, over all its clauses
MaxFiles    == 2   \* files of a package
MaxSwitches == 2   \* type switches of a package

(***************************************************************************)
(* Sequence helpers.                                                       *)
(***************************************************************************)
RECURSIVE Flatten(_)
Flatten(ss) ==
    IF ss = <<>> THEN <<>> ELSE Head(ss) \o Flatten(Tail(ss))

RECURSIVE JoinStrings(_, _)
\* strings.Join
JoinStrings(ss, sep) ==
    IF ss = <<>> THEN ""
    ELSE IF Len(ss) = 1 THEN ss[1]
    ELSE ss[1] \o sep \o JoinStrings(Tail(ss), sep)

Range(s) == {s[i] : i \in DOMAIN s}

SeqsUpTo(S, n) == UNION {[1..k -> S] : k \in 0..n}

(***************************************************************************)
(* Declaration scanning (analyzer.go).  A line is a sequence of symbols:   *)
(* KW stands for the seventeen characters //go-sumtype:decl, every other   *)
(* symbol is one character.                                                *)
(***************************************************************************)
KW == "//go-sumtype:decl"

\* The class \s of Go's regexp syntax is [\t\n\f\r ]; a line cut by
\* bufio.ScanLines holds no \n.
WhiteSpace == {" ", "\t", "\f", "\r"}

\* The symbols of the lines handed to the scanner alone.
LineAlphabet == {KW, " ", "\t", "\f", "T", "-"}

\* Every symbol of a line; the type names stand for their characters.
Symbols == LineAlphabet \cup {"Shape", "Expr", "Ghost", "\r"}

NonSpace == Symbols \ WhiteSpace

Lines == SeqsUpTo(LineAlphabet, MaxLineLen)

RECURSIVE RunOf(_, _, _)
\* How many symbols of l from index i on lie in S (a greedy \s* or \S*).
RunOf(l, i, S) ==
    IF i > Len(l) \/ l[i] \notin S THEN 0 ELSE 1 + RunOf(l, i + 1, S)

RECURSIVE Concat(_)
Concat(l) ==
    IF l = <<>> THEN "" ELSE Head(l) \o Concat(Tail(l))

\* bytes.HasPrefix(line, "//go-sumtype:decl ") || bytes.HasPrefix(line, "//go-sumtype:decl\t")
isSumTypeDecl(l) ==
    /\ Len(l) >= 2
    /\ l[1] = KW
    /\ l[2] \in {" ", "\t"}

\* A slip of parseSumTypeDecl: the expression without its \s*$.
parseSumTypeDeclNoEnd(l) ==
    IF l = <<>> \/ l[1] # KW THEN ""
    ELSE LET n1 == RunOf(l, 2, WhiteSpace)
             i  == 2 + n1
             n2 == RunOf(l, i, NonSpace)
         IN  IF n1 >= 1 /\ n2 >= 1 THEN Concat(SubSeq(l, i, i + n2 - 1)) ELSE ""

\* reParseSumTypeDecl = ^//go-sumtype:decl\s+(\S+)\s*$ ; the first capture, or ""
parseSumTypeDecl(l) ==
    IF l = <<>> \/ l[1] # KW THEN ""
    ELSE LET n1 == RunOf(l, 2, WhiteSpace)
             i  == 2 + n1
             n2 == RunOf(l, i, NonSpace)
             j  == i + n2
             n3 == RunOf(l, j, WhiteSpace)
         IN  IF n1 >= 1 /\ n2 >= 1 /\ j + n3 = Len(l) + 1
             THEN Concat(SubSeq(l, i, j - 1))
             ELSE ""

\* The body of sumTypeDeclSearch's loop: the TypeName appended for the line,
\* "" when the line is skipped.
lineDecl(l) ==
    IF ~isSumTypeDecl(l) THEN "" ELSE parseSumTypeDecl(l)

RECURSIVE scanLines(_, _, _, _)
\* sumTypeDeclSearch's loop from line number n on; the scanner stops with an
\* error at the line tooLongAt (0: no such line).
scanLines(path, ls, n, tooLongAt) ==
    IF n > Len(ls) \/ n = tooLongAt THEN <<>>
    ELSE LET ty   == lineDecl(ls[n])
             rest == scanLines(path, ls, n + 1, tooLongAt)
         IN  IF ty = "" THEN rest
             ELSE <<[TypeName |-> ty, Path |-> path, Line |-> n]>> \o rest

\* f: [name, openErr, lines, tooLongAt].  Returns [decls, err].
sumTypeDeclSearch(f) ==
    IF f.openErr THEN [decls |-> <<>>, err |-> "open " \o f.name]
    ELSE [decls |-> scanLines(f.name, f.lines, 1, f.tooLongAt), err |-> NIL]

(***************************************************************************)
(* The package under analysis: its scope (go/types) and the sum type       *)
(* definitions resolved from declarations.  An object is named by its      *)
(* identifier; every object of the scope is a type name.                   *)
(***************************************************************************)
\* pkg.Scope(), in declaration order.
ScopeOrder == <<"Square", "Shape", "Circle", "Num", "Expr">>

ScopeNames == Range(ScopeOrder)

\* pkg.Scope().Lookup(name): the object, or nil.
Lookup(name) == IF name \in ScopeNames THEN name ELSE NIL

\* obj.Type().Underlying()
Underlying(ty) ==
    CASE ty = "Shape" -> "interface{isShape()}"
      [] ty = "Expr"  -> "interface{isExpr()}"
      [] OTHER        -> "struct{} " \o ty

IsInterface(ty) == ty \in {"Shape", "Expr"}

\* Whether ty or *ty has the methods of the interface iface.
Implements(ty, iface) ==
    \/ ty \in {"Circle", "Square"} /\ iface = Underlying("Shape")
    \/ ty = "Num" /\ iface = Underlying("Expr")

\* The variants of an interface: every type of the scope that implements it,
\* in the scope's order.
variantsOf(iface) ==
    SelectSeq(ScopeOrder, LAMBDA ty : ~IsInterface(ty) /\ Implements(ty, iface))

NilDecl == [TypeName |-> "", Path |-> "", Line |-> 0]

\* The nil *sumTypeDef.
NilDef == [Decl |-> NilDecl, Ty |-> NIL, Variants |-> <<>>]

\* The resolution of one declaration: a sumTypeDef, or nil when the declared
\* name is not an interface type of the scope.
newSumTypeDef(decl) ==
    LET obj == Lookup(decl.TypeName)
    IN  IF obj = NIL \/ ~IsInterface(obj) THEN NilDef
        ELSE [Decl |-> decl, Ty |-> Underlying(obj), Variants |-> variantsOf(Underlying(obj))]

RECURSIVE findSumTypeDefs(_)
\* Returns [defs, errs]: a definition per declaration that resolves, an error
\* per declaration that does not.
findSumTypeDefs(ds) ==
    IF ds = <<>> THEN [defs |-> <<>>, errs |-> <<>>]
    ELSE LET def  == newSumTypeDef(Head(ds))
             rest == findSumTypeDefs(Tail(ds))
         IN  IF def = NilDef
             THEN [defs |-> rest.defs,
                   errs |-> <<[kind |-> "unresolved", decl |-> Head(ds)]>> \o rest.errs]
             ELSE [defs |-> <<def>> \o rest.defs, errs |-> rest.errs]

\* def.missing(tys): the variants with no identical type among tys.
missing(def, tys) ==
    SelectSeq(def.Variants, LAMBDA v : v \notin Range(tys))

(***************************************************************************)
(* check.go.  A switch is [Pos, Assign, Body, static]: Assign holds the    *)
(* expression under .(type), Body the clauses (a clause whose List is      *)
(* empty is the default clause); static is the expression's static type,   *)
(* which no code below reads.                                              *)
(***************************************************************************)
\* The byte order of the names that occur, as sort.Strings compares them.
NameOrder == <<"Circle", "Expr", "Ghost", "Num", "Shape", "Square">>

StrLess(a, b) ==
    LET idx(x) == CHOOSE i \in DOMAIN NameOrder : NameOrder[i] = x
    IN  idx(a) < idx(b)

RECURSIVE insertSorted(_, _)
insertSorted(x, s) ==
    IF s = <<>> THEN <<x>>
    ELSE IF StrLess(Head(s), x) THEN <<Head(s)>> \o insertSorted(x, Tail(s))
    ELSE <<x>> \o s

RECURSIVE sortStrings(_)
\* sort.Strings
sortStrings(s) ==
    IF s = <<>> THEN <<>> ELSE insertSorted(Head(s), sortStrings(Tail(s)))

\* inexhaustiveError.Names
Names(missingObjs) == sortStrings(missingObjs)

\* inexhaustiveError.Error
Error(e) ==
    e.Pos \o ": exhaustiveness check failed for sum type '" \o e.Def.Decl.TypeName
          \o "': missing cases for " \o JoinStrings(Names(e.Missing), ", ")

\* findTypeAssertExpr: the X of the TypeAssertExpr, under either form of Assign.
findTypeAssertExpr(sw) ==
    IF sw.Assign.kind = "AssignStmt" THEN sw.Assign.Rhs[1].X ELSE sw.Assign.X.X

RECURSIVE findDefFrom(_, _, _)
findDefFrom(ds, i, needle) ==
    IF i > Len(ds) THEN NilDef
    ELSE IF Underlying(needle) = ds[i].Ty THEN ds[i]
    ELSE findDefFrom(ds, i + 1, needle)

\* findDef: the first definition whose interface is identical to the
\* underlying type of needle, or nil.
findDef(ds, needle) == findDefFrom(ds, 1, needle)

\* switchVariants: every case expression, and whether a clause has List == nil.
switchVariants(sw) ==
    [exprs |-> Flatten([i \in DOMAIN sw.Body |->
                          IF sw.Body[i].List = <<>> THEN <<>> ELSE sw.Body[i].List]),
     hasDefault |-> \E i \in DOMAIN sw.Body : sw.Body[i].List = <<>>]

\* Two slips of defaultClauseAlwaysPanics: every default clause taken for a
\* panic; the name of the called function not looked at.
defaultClauseAlwaysPanicsAlways(sw) == TRUE

defaultClauseAlwaysPanicsAnyCall(sw) ==
    LET ds == {i \in DOMAIN sw.Body : sw.Body[i].List = <<>>}
        clause == sw.Body[CHOOSE i \in ds : \A j \in ds : i <= j]
    IN  /\ Len(clause.Body) = 1
        /\ clause.Body[1].stmt = "ExprStmt"
        /\ clause.Body[1].x = "CallExpr"

\* defaultClauseAlwaysPanics: the first clause with List == nil has a body of
\* one statement, an expression statement, a call, of an identifier, named
\* panic.  Only called on a switch that has a default clause.
defaultClauseAlwaysPanics(sw) ==
    LET ds == {i \in DOMAIN sw.Body : sw.Body[i].List = <<>>}
        clause == sw.Body[CHOOSE i \in ds : \A j \in ds : i <= j]
    IN  IF Len(clause.Body) # 1 THEN FALSE
        ELSE IF clause.Body[1].stmt # "ExprStmt" THEN FALSE
        ELSE IF clause.Body[1].x # "CallExpr" THEN FALSE
        ELSE IF clause.Body[1].fun # "Ident" THEN FALSE
        ELSE clause.Body[1].name = "panic"

RECURSIVE variantTypes(_)
\* The loop of missingVariantsInSwitch over the case expressions: [panic, tys].
variantTypes(exprs) ==
    IF exprs = <<>> THEN [panic |-> NIL, tys |-> <<>>]
    ELSE LET expr == Head(exprs)
         IN  IF expr.kind # "StarExpr"
             THEN [panic |-> "not a star expression", tys |-> <<>>]
             ELSE IF expr.xkind # "Ident"
             THEN [panic |-> "interface conversion: ast.Expr is not *ast.Ident", tys |-> <<>>]
             ELSE IF Lookup(expr.name) = NIL
             THEN [panic |-> "nil pointer dereference", tys |-> <<>>]
             ELSE LET rest == variantTypes(Tail(exprs))
                  IN  IF rest.panic # NIL THEN rest
                      ELSE [panic |-> NIL, tys |-> <<Lookup(expr.name)>> \o rest.tys]

\* missingVariantsInSwitch: [panic, def, missing].
missingVariantsInSwitch(ds, sw) ==
    LET asserted == findTypeAssertExpr(sw)
    IN  IF asserted.kind # "SelectorExpr"
        THEN [panic |-> "expected *ast.SelectExpr", def |-> NilDef, missing |-> <<>>]
        ELSE IF Lookup(asserted.Sel) = NIL
        THEN [panic |-> "expected non nil obj", def |-> NilDef, missing |-> <<>>]
        ELSE LET def == findDef(ds, Lookup(asserted.Sel))
                 sv  == switchVariants(sw)
             IN  IF def = NilDef
                 THEN [panic |-> NIL, def |-> NilDef, missing |-> <<>>]
                 ELSE IF sv.hasDefault /\ ~defaultClauseAlwaysPanics(sw)
                 THEN [panic |-> NIL, def |-> def, missing |-> <<>>]
                 ELSE LET vt == variantTypes(sv.exprs)
                      IN  IF vt.panic # NIL
                          THEN [panic |-> vt.panic, def |-> NilDef, missing |-> <<>>]
                          ELSE [panic |-> NIL, def |-> def, missing |-> missing(def, vt.tys)]

\* checkSwitch: what the call did: it panicked, returned nil, or returned an
\* inexhaustiveError (with its Names() and its Error() text).
checkSwitch(ds, sw) ==
    LET r == missingVariantsInSwitch(ds, sw)
    IN  IF r.panic # NIL
        THEN [kind |-> "panic", Pos |-> sw.Pos, TypeName |-> "", Names |-> <<>>, msg |-> r.panic]
        ELSE IF Len(r.missing) > 0
        THEN LET e == [Pos |-> sw.Pos, Def |-> r.def, Missing |-> r.missing]
             IN  [kind |-> "inexhaustive", Pos |-> sw.Pos, TypeName |-> e.Def.Decl.TypeName,
                  Names |-> Names(e.Missing), msg |-> Error(e)]
        ELSE [kind |-> "nil", Pos |-> sw.Pos, TypeName |-> "", Names |-> <<>>, msg |-> ""]

(***************************************************************************)
(* The switches and definitions checkSwitch is applied to.                 *)
(***************************************************************************)
Star(n)  == [kind |-> "StarExpr", xkind |-> "Ident", name |-> n]   \* case *n:
Plain(n) == [kind |-> "Ident", xkind |-> "", name |-> n]           \* case n:

CaseExprs == {Star("Circle"), Star("Square"), Star("Num"), Star("Ghost"), Plain("Circle")}

PanicCall   == [stmt |-> "ExprStmt", x |-> "CallExpr", fun |-> "Ident", name |-> "panic"]
FooCall     == [stmt |-> "ExprStmt", x |-> "CallExpr", fun |-> "Ident", name |-> "foo"]
MethodCall  == [stmt |-> "ExprStmt", x |-> "CallExpr", fun |-> "SelectorExpr", name |-> "panic"]
ReceiveStmt == [stmt |-> "ExprStmt", x |-> "UnaryExpr", fun |-> "", name |-> ""]
ReturnStmt  == [stmt |-> "ReturnStmt", x |-> "", fun |-> "", name |-> ""]

DefaultBodies ==
    {<<>>, <<PanicCall>>, <<PanicCall, PanicCall>>, <<ReturnStmt>>, <<ReceiveStmt>>,
     <<FooCall>>, <<MethodCall>>}

TypedClause(l)   == [List |-> l, Body |-> <<>>]
DefaultClause(b) == [List |-> <<>>, Body |-> b]

RECURSIVE TypedClauseSeqs(_)
\* Every sequence of typed clauses with at most n case expressions in all.
TypedClauseSeqs(n) ==
    {<<>>} \cup
    UNION {{<<TypedClause(l)>> \o rest : l \in [1..k -> CaseExprs],
                                         rest \in TypedClauseSeqs(n - k)} : k \in 1..n}

InsertAt(s, i, x) == SubSeq(s, 1, i) \o <<x>> \o SubSeq(s, i + 1, Len(s))

\* Body.List: the typed clauses tb and at most one default clause, at any place.
WithDefault(tb) ==
    {tb} \cup {InsertAt(tb, i, DefaultClause(b)) : i \in 0..Len(tb), b \in DefaultBodies}

Ident(n)      == [kind |-> "Ident", Sel |-> n]
CallExpr      == [kind |-> "CallExpr", Sel |-> ""]
Selector(sel) == [kind |-> "SelectorExpr", Sel |-> sel]

NoExpr == [kind |-> "", Sel |-> ""]

\* switch v := x.(type)
AssignForm(x) == [kind |-> "AssignStmt", Rhs |-> <<[X |-> x]>>, X |-> [X |-> NoExpr]]
\* switch x.(type)
ExprForm(x)   == [kind |-> "ExprStmt", Rhs |-> <<>>, X |-> [X |-> x]]

\* The switched expressions, each with its static type: a variable, a call,
\* an embedded field (selected by the name of its type), a field whose name
\* is no object of the package, a field whose name is that of another type.
SwitchedExprs ==
    {[Assign |-> AssignForm(Ident("s")),         static |-> "Shape"],
     [Assign |-> ExprForm(Ident("e")),           static |-> "Expr"],
     [Assign |-> AssignForm(CallExpr),           static |-> "Shape"],
     [Assign |-> AssignForm(Selector("Shape")),  static |-> "Shape"],
     [Assign |-> ExprForm(Selector("Expr")),     static |-> "Expr"],
     [Assign |-> AssignForm(Selector("shape")),  static |-> "Shape"],
     [Assign |-> AssignForm(Selector("Expr")),   static |-> "Shape"],
     [Assign |-> ExprForm(Selector("Shape")),    static |-> "Expr"]}

DeclOf(name) == [TypeName |-> name, Path |-> "a.go", Line |-> 1]

\* The non-empty defs run hands to checkSwitch.
DefSeqs ==
    {findSumTypeDefs(ds).defs :
        ds \in {<<DeclOf("Shape")>>, <<DeclOf("Expr")>>, <<DeclOf("Shape"), DeclOf("Expr")>>}}

Pending == [kind |-> "pending", Pos |-> "", TypeName |-> "", Names |-> <<>>, msg |-> ""]

NoSwitch == [Pos |-> "", Assign |-> ExprForm(NoExpr), Body |-> <<>>, static |-> ""]

IdleDecl  == line = <<>> /\ declName = ""
IdleCheck == swtch = NoSwitch /\ cdefs = <<>> /\ outcome = Pending
IdleRun ==
    /\ version = 0 /\ files = <<>> /\ switches = <<>> /\ pc = "idle"
    /\ filesLeft = {} /\ decls = <<>> /\ defs = <<>> /\ errs = <<>>
    /\ swLeft = {} /\ checked = {} /\ reports = <<>> /\ panicked = FALSE

(***************************************************************************)
(* SpecDecl: the scanner's loop body applied to one line.                  *)
(***************************************************************************)
InitDecl ==
    /\ line \in Lines
    /\ declName = NIL
    /\ IdleCheck /\ IdleRun

ScanLine ==
    /\ declName = NIL
    /\ declName' = lineDecl(line)
    /\ UNCHANGED <<line, checkVars, runVars>>

NextDecl == ScanLine

SpecDecl == InitDecl /\ [][NextDecl]_vars

(***************************************************************************)
(* SpecCheck: checkSwitch applied to one switch.                           *)
(***************************************************************************)
InitCheck ==
    /\ \E x \in SwitchedExprs, tb \in TypedClauseSeqs(MaxCases) :
          \E b \in WithDefault(tb) :
             swtch = [Pos |-> "a.go:9:2", Assign |-> x.Assign, Body |-> b, static |-> x.static]
    /\ cdefs \in DefSeqs
    /\ outcome = Pending
    /\ IdleDecl /\ IdleRun

CheckSwitch ==
    /\ outcome = Pending
    /\ outcome' = checkSwitch(cdefs, swtch)
    /\ UNCHANGED <<swtch, cdefs, declVars, runVars>>

NextCheck == CheckSwitch

SpecCheck == InitCheck /\ [][NextCheck]_vars

(***************************************************************************)
(* Properties of the declaration scan.                                     *)
(***************************************************************************)
IdentChars == {"T"}

Scanned == declName # NIL

\* l is KW, then the symbols of first, then symbols of ws up to index a, then
\* one or more symbols of nameChars up to index b, then only whitespace.
MarkerLine(l, first, nameChars) ==
    \E a \in 3..Len(l), b \in 4..(Len(l) + 1) :
        /\ a < b
        /\ l[1] = KW
        /\ l[2] \in first
        /\ \A k \in 3..(a - 1) : l[k] \in WhiteSpace
        /\ \A k \in a..(b - 1) : l[k] \in nameChars
        /\ \A k \in b..Len(l) : l[k] \in WhiteSpace

\* The symbols of l between its first and its last non-whitespace symbol
\* after the keyword.
MarkerName(l) ==
    Concat(SelectSeq(SubSeq(l, 2, Len(l)), LAMBDA c : c \notin WhiteSpace))

SwapSpaceTab(l) ==
    [k \in DOMAIN l |-> IF k # 2 THEN l[k] ELSE IF l[k] = " " THEN "\t" ELSE " "]

\* C8, as claimed: a line yields a declaration if and only if it is the
\* keyword, one or more whitespace characters, a single bare identifier and
\* only trailing whitespace; the name recorded is that identifier.
C8_Original ==
    Scanned =>
        /\ (declName # "") <=> MarkerLine(line, WhiteSpace, IdentChars)
        /\ declName # "" => declName = MarkerName(line)

\* C8, amended: a line yields a declaration if and only if it is the keyword,
\* then a space or a tab, then any further whitespace, then a single run of one
\* or more non-whitespace characters (an identifier or not), then only
\* whitespace; the name recorded is exactly that run; and the outcome is the
\* same with the space after the keyword changed to a tab or the tab to a space.
C8_MarkerLine ==
    Scanned =>
        /\ (declName # "") <=>
              MarkerLine(line, {" ", "\t"}, NonSpace)
        /\ declName # "" => declName = MarkerName(line)
        /\ (Len(line) >= 2 /\ line[2] \in {" ", "\t"}) =>
              lineDecl(SwapSpaceTab(line)) = declName

C8_Witness ==
    /\ Scanned
    /\ declName = "T-"
    /\ line[2] = "\t"
    /\ line[Len(line)] = " "

(***************************************************************************)
(* Properties of checkSwitch.                                              *)
(***************************************************************************)
Checked == outcome # Pending

\* The definition the switched expression's static type resolves to.
StaticDef == findDef(cdefs, swtch.static)

HasDefault(sw) == \E i \in DOMAIN sw.Body : sw.Body[i].List = <<>>

DefaultBody(sw) == sw.Body[CHOOSE i \in DOMAIN sw.Body : sw.Body[i].List = <<>>].Body

WithoutDefault(sw) ==
    [sw EXCEPT !.Body = SelectSeq(sw.Body, LAMBDA c : c.List # <<>>)]

\* The types named by the cases of the switch.
CaseTypes(sw) ==
    UNION {{sw.Body[i].List[k].name : k \in DOMAIN sw.Body[i].List} : i \in DOMAIN sw.Body}

IsSorted(ns) == \A i, j \in DOMAIN ns : i < j => StrLess(ns[i], ns[j])

\* C1, as claimed: a switch on a declared sum type with no default clause that
\* misses a variant yields a diagnostic listing exactly the variants no case
\* names, once each, in ascending order, joined by ", ".
C1_MissingNames ==
    (/\ Checked
     /\ StaticDef # NilDef
     /\ ~HasDefault(swtch)
     /\ Range(StaticDef.Variants) \ CaseTypes(swtch) # {})
    => /\ outcome.kind = "inexhaustive"
       /\ Range(outcome.Names) = Range(StaticDef.Variants) \ CaseTypes(swtch)
       /\ IsSorted(outcome.Names)
       /\ outcome.msg = swtch.Pos \o ": exhaustiveness check failed for sum type '"
                          \o swtch.static \o "': missing cases for "
                          \o JoinStrings(outcome.Names, ", ")

\* C2, as claimed: a switch on a declared sum type whose case types are
\* exactly the variants yields no diagnostic, whatever the order, grouping and
\* repetition of the cases.
C2_FullCover ==
    (/\ Checked
     /\ StaticDef # NilDef
     /\ CaseTypes(swtch) = Range(StaticDef.Variants))
    => outcome.kind # "inexhaustive"

\* C3: a switch with a default clause whose body is anything but exactly one
\* call of panic yields no diagnostic, whatever its cases cover.
C3_CatchAll ==
    (/\ Checked
     /\ HasDefault(swtch)
     /\ DefaultBody(swtch) # <<PanicCall>>)
    => outcome.kind # "inexhaustive"

C3_Witness ==
    /\ Checked
    /\ HasDefault(swtch)
    /\ DefaultBody(swtch) = <<PanicCall, PanicCall>>
    /\ StaticDef # NilDef
    /\ findTypeAssertExpr(swtch) = Selector(swtch.static)
    /\ CaseTypes(swtch) = {}
    /\ outcome.kind = "nil"

\* The definition checkSwitch resolved the switch to, when it did not panic.
ResolvedDef == findDef(cdefs, Lookup(findTypeAssertExpr(swtch).Sel))

C9_NoDefinition ==
    (Checked /\ StaticDef = NilDef) => outcome.kind = "nil"

(***************************************************************************)
(* Spec: run on one package.  The package is a sequence of files and a     *)
(* sequence of type switches (in Preorder); version tells which of the two *)
(* definitions of run executes.                                            *)
(***************************************************************************)
FileKinds == {"shape", "expr", "ghost", "shape+ghost", "none", "unreadable", "cgo", "toolong"}

FileName(kind, i) == IF kind = "cgo" THEN "C" ELSE "f" \o ToString(i) \o ".go"

FileLines(kind) ==
    CASE kind = "shape"       -> <<<<"T">>, <<KW, " ", "Shape">>>>
      [] kind = "expr"        -> <<<<KW, "\t", "Expr", " ">>>>
      [] kind = "ghost"       -> <<<<KW, " ", " ", "Ghost">>>>
      [] kind = "shape+ghost" -> <<<<KW, " ", "Ghost">>, <<KW, " ", "Shape">>>>
      [] kind = "cgo"         -> <<<<KW, " ", "Expr">>>>
      [] kind = "toolong"     -> <<<<"T">>, <<KW, " ", "Expr">>>>
      [] OTHER                -> <<<<"T">>, <<KW, "T">>>>

\* The i-th file of the package.
FileOf(kind, i) ==
    [name      |-> FileName(kind, i),
     openErr   |-> kind = "unreadable",
     lines     |-> FileLines(kind),
     tooLongAt |-> IF kind = "toolong" THEN 1 ELSE 0]

PackageFiles ==
    {[i \in DOMAIN ks |-> FileOf(ks[i], i)] : ks \in SeqsUpTo(FileKinds, MaxFiles)}

\* The switches of a package: each on the embedded field Shape unless said.
SwitchKinds ==
    {[Assign |-> AssignForm(Selector("Shape")), static |-> "Shape",    \* exhaustive
      Body |-> <<TypedClause(<<Star("Circle"), Star("Square")>>)>>],
     [Assign |-> AssignForm(Selector("Shape")), static |-> "Shape",    \* misses Square
      Body |-> <<TypedClause(<<Star("Circle")>>)>>],
     [Assign |-> ExprForm(Selector("Shape")), static |-> "Shape",      \* misses both
      Body |-> <<DefaultClause(<<PanicCall>>)>>],
     [Assign |-> AssignForm(Ident("s")), static |-> "Shape",           \* on a variable
      Body |-> <<TypedClause(<<Star("Circle")>>)>>],
     [Assign |-> AssignForm(Selector("Shape")), static |-> "Shape",    \* case Circle:
      Body |-> <<TypedClause(<<Plain("Circle")>>)>>],
     [Assign |-> AssignForm(Selector("Shape")), static |-> "Shape",    \* case *Ghost:
      Body |-> <<TypedClause(<<Star("Circle"), Star("Ghost")>>)>>]}

SwitchPos(i) == "a.go:" \o ToString(i) \o "0:2"

PackageSwitches ==
    {[i \in DOMAIN ks |->
        [Pos |-> SwitchPos(i), Assign |-> ks[i].Assign, Body |-> ks[i].Body,
         static |-> ks[i].static]] : ks \in SeqsUpTo(SwitchKinds, MaxSwitches)}

Init ==
    /\ version \in {1, 2}
    /\ files \in PackageFiles
    /\ switches \in PackageSwitches
    /\ pc = "start"
    /\ filesLeft = {} /\ decls = <<>> /\ defs = <<>> /\ errs = <<>>
    /\ swLeft = {} /\ checked = {} /\ reports = <<>> /\ panicked = FALSE
    /\ IdleDecl /\ IdleCheck

\* What reaches the user.
ErrorReport(msg)      == [kind |-> "error", Pos |-> "", TypeName |-> "", Names |-> <<>>, msg |-> msg]
UnresolvedReport(err) ==
    [kind |-> "unresolved", Pos |-> err.decl.Path \o ":" \o ToString(err.decl.Line),
     TypeName |-> err.decl.TypeName, Names |-> <<>>, msg |-> "type not found"]

\* inspector.Preorder: the files and the switches of the pass are collected.
Preorder ==
    /\ pc = "start"
    /\ pc' = "decls"
    /\ filesLeft' = DOMAIN files
    /\ swLeft' = DOMAIN switches
    /\ UNCHANGED <<version, files, switches, decls, defs, errs, checked, reports,
                   panicked, declVars, checkVars>>

\* findSumTypeDecls (lines 91-111), one iteration of its range over the map
\* of files; on an error of sumTypeDeclSearch it returns nil and the error,
\* which run returns.
findSumTypeDecls ==
    /\ pc = "decls" /\ version = 1
    /\ \E i \in filesLeft :
         LET r == sumTypeDeclSearch(files[i])
         IN  IF files[i].name = "C"
             THEN /\ filesLeft' = filesLeft \ {i}
                  /\ UNCHANGED <<decls, reports, pc>>
             ELSE IF r.err # NIL
             THEN /\ decls' = <<>>
                  /\ reports' = Append(reports, ErrorReport(r.err))
                  /\ pc' = "done"
                  /\ UNCHANGED filesLeft
             ELSE /\ decls' = decls \o r.decls
                  /\ filesLeft' = filesLeft \ {i}
                  /\ UNCHANGED <<reports, pc>>
    /\ UNCHANGED <<version, files, switches, defs, errs, swLeft, checked, panicked,
                   declVars, checkVars>>

\* run, lines 72-79: the declarations are resolved; with no definition run
\* returns the first error, if any; with one, the errors are not looked at.
run_findSumTypeDefs ==
    /\ pc = "decls" /\ version = 1 /\ filesLeft = {}
    /\ LET r == findSumTypeDefs(decls)
       IN  /\ defs' = r.defs
           /\ errs' = r.errs
           /\ IF Len(r.defs) = 0
              THEN /\ pc' = "done"
                   /\ reports' = IF Len(r.errs) = 0 THEN reports
                                 ELSE Append(reports, UnresolvedReport(r.errs[1]))
              ELSE /\ pc' = "switches"
                   /\ UNCHANGED reports
    /\ UNCHANGED <<version, files, switches, filesLeft, decls, swLeft, checked,
                   panicked, declVars, checkVars>>

\* run, lines 81-86: one iteration of the range over the map of switches; the
\* first error of checkSwitch is returned.
run_checkSwitch ==
    /\ pc = "switches" /\ version = 1
    /\ \E i \in swLeft :
         LET r == checkSwitch(defs, switches[i])
         IN  /\ swLeft' = swLeft \ {i}
             /\ IF r.kind = "panic"
                THEN /\ panicked' = TRUE
                     /\ reports' = Append(reports, r)
                     /\ pc' = "done"
                     /\ UNCHANGED checked
                ELSE IF r.kind = "inexhaustive"
                THEN /\ reports' = Append(reports, r)
                     /\ pc' = "done"
                     /\ UNCHANGED <<checked, panicked>>
                ELSE /\ checked' = checked \cup {i}
                     /\ UNCHANGED <<reports, pc, panicked>>
    /\ UNCHANGED <<version, files, switches, filesLeft, decls, defs, errs,
                   declVars, checkVars>>

\* run, line 88 and line 243: every switch was visited.
run_return ==
    /\ pc = "switches" /\ swLeft = {}
    /\ pc' = "done"
    /\ UNCHANGED <<version, files, switches, filesLeft, decls, defs, errs, swLeft,
                   checked, reports, panicked, declVars, checkVars>>

\* findSumTypeDecls (lines 250-279), one iteration of its range over the map
\* of files; on an error of sumTypeDeclSearch it reports and returns nil, and
\* run returns for want of declarations.
findSumTypeDecls2 ==
    /\ pc = "decls" /\ version = 2
    /\ \E i \in filesLeft :
         LET r == sumTypeDeclSearch(files[i])
         IN  IF files[i].name = "C"
             THEN /\ filesLeft' = filesLeft \ {i}
                  /\ UNCHANGED <<decls, reports, pc>>
             ELSE IF r.err # NIL
             THEN /\ decls' = <<>>
                  /\ reports' = Append(reports,
                                  ErrorReport("unknown error reading file: " \o r.err))
                  /\ pc' = "done"
                  /\ UNCHANGED filesLeft
             ELSE /\ decls' = decls \o r.decls
                  /\ filesLeft' = filesLeft \ {i}
                  /\ UNCHANGED <<reports, pc>>
    /\ UNCHANGED <<version, files, switches, defs, errs, swLeft, checked, panicked,
                   declVars, checkVars>>

\* findSumTypeDefs(pass, decls): the definitions, each failure reported on the pass.
reportUnresolved(rs, es) ==
    rs \o [k \in DOMAIN es |-> UnresolvedReport(es[k])]

\* run, lines 229-237: no declaration, or no definition: return.
run2_findSumTypeDefs ==
    /\ pc = "decls" /\ version = 2 /\ filesLeft = {}
    /\ IF Len(decls) = 0
       THEN /\ pc' = "done"
            /\ UNCHANGED <<defs, errs, reports>>
       ELSE LET r == findSumTypeDefs(decls)
            IN  /\ defs' = r.defs
                /\ errs' = r.errs
                /\ reports' = reportUnresolved(reports, r.errs)
                /\ pc' = IF Len(r.defs) = 0 THEN "done" ELSE "switches"
    /\ UNCHANGED <<version, files, switches, filesLeft, decls, swLeft, checked,
                   panicked, declVars, checkVars>>

\* checkSwitch(pass, defs, swtch): the check of check.go, its finding
\* reported on the pass.
checkSwitch2(ds, sw) == checkSwitch(ds, sw)

\* run, lines 239-241: the next switch of the slice.
run2_checkSwitch ==
    /\ pc = "switches" /\ version = 2
    /\ \E i \in swLeft :
         /\ \A j \in swLeft : i <= j
         /\ LET r == checkSwitch2(defs, switches[i])
            IN  /\ swLeft' = swLeft \ {i}
                /\ IF r.kind = "panic"
                   THEN /\ panicked' = TRUE
                        /\ reports' = Append(reports, r)
                        /\ pc' = "done"
                        /\ UNCHANGED checked
                   ELSE IF r.kind = "inexhaustive"
                   THEN /\ reports' = Append(reports, r)
                        /\ checked' = checked \cup {i}
                        /\ UNCHANGED <<pc, panicked>>
                   ELSE /\ checked' = checked \cup {i}
                        /\ UNCHANGED <<reports, pc, panicked>>
    /\ UNCHANGED <<version, files, switches, filesLeft, decls, defs, errs,
                   declVars, checkVars>>

Next ==
    \/ Preorder
    \/ findSumTypeDecls
    \/ run_findSumTypeDefs
    \/ run_checkSwitch
    \/ findSumTypeDecls2
    \/ run2_findSumTypeDefs
    \/ run2_checkSwitch
    \/ run_return

Spec == Init /\ [][Next]_vars

(***************************************************************************)
(* Properties of run.                                                      *)
(***************************************************************************)
Done == pc = "done"

\* The switches for which a report of the given kind was produced.
Reported(kind) ==
    {i \in DOMAIN switches :
        \E k \in DOMAIN reports :
            reports[k].kind = kind /\ reports[k].Pos = switches[i].Pos}

\* The switches that do not cover the definitions run resolved.
Inexhaustive ==
    {i \in DOMAIN switches : checkSwitch(defs, switches[i]).kind = "inexhaustive"}

\* The switches run is done with: checked, or reported.
Processed == checked \cup Reported("inexhaustive") \cup Reported("panic")

ReadFailed == \E k \in DOMAIN reports : reports[k].kind = "error"

\* C5, as claimed: when run finishes, a diagnostic has been produced for every
\* inexhaustive switch and for no other, whatever the order of the visit.
C5_EveryOffender ==
    (Done /\ ~panicked /\ ~ReadFailed) => Reported("inexhaustive") = Inexhaustive

\* How many reports tell that the declaration d did not resolve.
UnresolvedReports(d) ==
    Cardinality({k \in DOMAIN reports :
                    /\ reports[k].kind = "unresolved"
                    /\ reports[k].TypeName = d.TypeName
                    /\ reports[k].Pos = d.Path \o ":" \o ToString(d.Line)})

\* C6, as claimed: a declaration that does not resolve is reported exactly
\* once, the other declarations are resolved, and the switches are checked
\* against the definitions that resolved.  Stated of the runs that read every
\* file and meet at most one inexhaustive switch and no panic, so that the
\* reporting of the switches themselves (C5, C10) is not in question.
C6_ResolutionFailure ==
    (Done /\ ~panicked /\ ~ReadFailed /\ Cardinality(Inexhaustive) <= 1) =>
        /\ \A k \in DOMAIN decls :
              IF newSumTypeDef(decls[k]) = NilDef
              THEN UnresolvedReports(decls[k]) = 1
              ELSE newSumTypeDef(decls[k]) \in Range(defs)
        /\ Reported("inexhaustive") = Inexhaustive

\* The declarations of the files that can be read, whatever the failing ones.
ReadableDecls ==
    UNION {Range(sumTypeDeclSearch(files[i]).decls) :
              i \in {j \in DOMAIN files : files[j].name # "C" /\ ~files[j].openErr}}

\* C7, as claimed: a file that cannot be read contributes no declaration, the
\* declarations of every other file are kept, and the switches are still
\* checked against them.
C7_ReadFailure ==
    (Done /\ \E i \in DOMAIN files : files[i].openErr /\ files[i].name # "C") =>
        /\ Range(decls) = ReadableDecls
        /\ Range(defs) = {newSumTypeDef(d) : d \in ReadableDecls} \ {NilDef}

\* C10, as claimed: a switch that breaks the checker's contract (a switched
\* expression or a case expression of another shape, a case type that does not
\* resolve) stops the check of that switch alone, as an internal error and not
\* as a diagnostic or as an exhaustive switch; every other switch is checked.
C10_ContractViolation ==
    (Done /\ panicked) =>
        /\ Reported("panic") \cap (checked \cup Reported("inexhaustive")) = {}
        /\ Processed = DOMAIN switches

====
